---------------------------- MODULE Spec2Model ----------------------------
(***************************************************************************)
(* A model of src/main.py: the command line entry point, the orchestrator  *)
(* TwitterScraper.scrape_profile and its three helpers _navigate_to_profile,*)
(* _auto_scroll and _process_post.                                         *)
(*                                                                         *)
(* The browser is the environment.  Every call the program makes on it     *)
(* either returns a value the environment picks or raises; the variable    *)
(* calls counts the calls made on each browser method.  Python strings are *)
(* sequences of one-character strings, so that slicing, stripping, prefix  *)
(* tests and the command's regular expression are computed, not assumed.   *)
(***************************************************************************)
EXTENDS Integers, Sequences, FiniteSets

(***************************************************************************)
(* Bounds of the model.                                                    *)
(***************************************************************************)
MaxRequested == 3      \* largest post count a command asks for
MaxRendered == 2       \* largest number of post elements the page renders
MaxHeight == 2         \* page heights are 0..MaxHeight
BannerSlack == 1       \* banner texts reach BannerLimit + BannerSlack characters
MaxClock == 2          \* the clock's first reading is in 0..MaxClock

(***************************************************************************)
(* Program constants.                                                      *)
(***************************************************************************)
ScrollAttempts == 5    \* config['scroll_attempts']
BannerLimit == 200     \* inner_text()[:200]

(***************************************************************************)
(* String literals of the program, and texts the environment produces.     *)
(***************************************************************************)
\* "analyze twitter account "
CommandHead ==
    << "a", "n", "a", "l", "y", "z", "e", " ", "t", "w", "i", "t", "t", "e", "r", " ", "a", "c", "c", "o", "u", "n", "t", " " >>
\* " get "
CommandGet ==
    << " ", "g", "e", "t", " " >>
\* " post"
CommandPost ==
    << " ", "p", "o", "s", "t" >>
\* "Timeout waiting for profile to load"
TimeoutMessage ==
    << "T", "i", "m", "e", "o", "u", "t", " ", "w", "a", "i", "t", "i", "n", "g", " ", "f", "o", "r", " ", "p", "r", "o", "f", "i", "l", "e", " ", "t", "o", " ", "l", "o", "a", "d" >>
\* "Profile error: "
ProfileErrorPrefix ==
    << "P", "r", "o", "f", "i", "l", "e", " ", "e", "r", "r", "o", "r", ":", " " >>
\* "Navigation error: "
NavigationErrorPrefix ==
    << "N", "a", "v", "i", "g", "a", "t", "i", "o", "n", " ", "e", "r", "r", "o", "r", ":", " " >>
\* "Runtime error: "
RuntimeErrorPrefix ==
    << "R", "u", "n", "t", "i", "m", "e", " ", "e", "r", "r", "o", "r", ":", " " >>
\* "Failed to process post "
FailedPostPrefix ==
    << "F", "a", "i", "l", "e", "d", " ", "t", "o", " ", "p", "r", "o", "c", "e", "s", "s", " ", "p", "o", "s", "t", " " >>
\* "Content unavailable"
ContentUnavailable ==
    << "C", "o", "n", "t", "e", "n", "t", " ", "u", "n", "a", "v", "a", "i", "l", "a", "b", "l", "e" >>
\* "N/A"
MetricUnavailable ==
    << "N", "/", "A" >>
\* "0"
MetricZero ==
    << "0" >>
\* "Invalid command format"
InvalidCommandFormat ==
    << "I", "n", "v", "a", "l", "i", "d", " ", "c", "o", "m", "m", "a", "n", "d", " ", "f", "o", "r", "m", "a", "t" >>
\* str(e) of a playwright TimeoutError
TimeoutText ==
    << "T", "i", "m", "e", "o", "u", "t", " ", "e", "x", "c", "e", "e", "d", "e", "d" >>
\* str(e) of any other playwright error
CrashText ==
    << "T", "a", "r", "g", "e", "t", " ", "c", "l", "o", "s", "e", "d" >>
\* "This account doesn't exist"
MissingAccountBanner ==
    << "T", "h", "i", "s", " ", "a", "c", "c", "o", "u", "n", "t", " ", "d", "o", "e", "s", "n", "'", "t", " ", "e", "x", "i", "s", "t" >>
\* "show me stuff"
ShowMeStuff ==
    << "s", "h", "o", "w", " ", "m", "e", " ", "s", "t", "u", "f", "f" >>
\* "show twitter profile al_1 first 2 posts", the usage line of the file's docstring
DocstringCommand ==
    << "s", "h", "o", "w", " ", "t", "w", "i", "t", "t", "e", "r", " ", "p", "r", "o", "f", "i", "l", "e", " ", "a", "l", "_", "1", " ", "f", "i", "r", "s", "t", " ", "2", " ", "p", "o", "s", "t", "s" >>
\* "al_1"
UserName ==
    << "a", "l", "_", "1" >>

(***************************************************************************)
(* Characters.                                                             *)
(***************************************************************************)
DigitChars == << "0", "1", "2", "3", "4", "5", "6", "7", "8", "9" >>

Digits == { DigitChars[i] : i \in 1..10 }

\* The characters \w matches, among those the model's commands use.
WordChars ==
    Digits \cup { "_", "a", "b", "c", "e", "g", "h", "l", "n", "o", "p", "s",
                  "t", "u", "w", "y", "z", "A" }

\* The characters str.strip() removes.
Whitespace == { " ", "\n", "\t" }

Min(a, b) == IF a <= b THEN a ELSE b

\* s[:n] for n >= 0
Take(s, n) == SubSeq(s, 1, Min(n, Len(s)))

\* s.startswith(p)
StartsWith(s, p) == Len(p) <= Len(s) /\ SubSeq(s, 1, Len(p)) = p

\* The literal lit occurs in s at position i.
LiteralAt(s, i, lit) ==
    /\ i + Len(lit) - 1 <= Len(s)
    /\ \A j \in 1..Len(lit) : s[i + j - 1] = lit[j]

\* The end (exclusive) of the longest run of characters of class, from i.
RECURSIVE SpanEnd(_, _, _)
SpanEnd(s, i, class) ==
    IF i <= Len(s) /\ s[i] \in class THEN SpanEnd(s, i + 1, class) ELSE i

\* The value of one decimal digit.
DigitValue(c) == (CHOOSE i \in 1..10 : DigitChars[i] = c) - 1

\* int(s) of a non-empty string of digits.
RECURSIVE ParseInt(_)
ParseInt(s) ==
    IF Len(s) = 0 THEN 0
    ELSE 10 * ParseInt(SubSeq(s, 1, Len(s) - 1)) + DigitValue(s[Len(s)])

\* str(n) for n >= 0.
RECURSIVE IntToStr(_)
IntToStr(n) ==
    IF n < 10 THEN << DigitChars[n + 1] >>
    ELSE IntToStr(n \div 10) \o << DigitChars[(n % 10) + 1] >>

\* s.strip()
RECURSIVE StripLeft(_)
StripLeft(s) ==
    IF Len(s) > 0 /\ s[1] \in Whitespace THEN StripLeft(Tail(s)) ELSE s

RECURSIVE StripRight(_)
StripRight(s) ==
    IF Len(s) > 0 /\ s[Len(s)] \in Whitespace
    THEN StripRight(SubSeq(s, 1, Len(s) - 1))
    ELSE s

Strip(s) == StripRight(StripLeft(s))

(***************************************************************************)
(* Optional values: None is the empty tuple, a value v is <<v>>.  A string *)
(* that may be None is the string itself, None being the empty tuple: the  *)
(* program only tests such a value for truth, and "" is false as None is.  *)
(***************************************************************************)
None == << >>

Some(v) == << v >>

(***************************************************************************)
(* re.match(r"analyze twitter account (\w+) get (\d+) posts?", command).   *)
(* The match is anchored at the start only.  \w+ and \d+ take the longest  *)
(* run: the literal that follows each starts with a space, which neither   *)
(* class holds, so giving characters back never helps.  The trailing s? is *)
(* optional and nothing is required after it.                              *)
(***************************************************************************)
\* As MatchCommand, with \d* for \d+: a command without a count matches.
MatchCommandNoCount(text) ==
    LET nameFrom == Len(CommandHead) + 1
        nameEnd == SpanEnd(text, nameFrom, WordChars)
        countFrom == nameEnd + Len(CommandGet)
        countEnd == SpanEnd(text, countFrom, Digits)
    IN  IF /\ LiteralAt(text, 1, CommandHead)
           /\ nameEnd > nameFrom
           /\ LiteralAt(text, nameEnd, CommandGet)
           /\ LiteralAt(text, countEnd, CommandPost)
        THEN Some([username |-> SubSeq(text, nameFrom, nameEnd - 1),
                   count |-> SubSeq(text, countFrom, countEnd - 1)])
        ELSE None

MatchCommand(text) ==
    LET nameFrom == Len(CommandHead) + 1
        nameEnd == SpanEnd(text, nameFrom, WordChars)
        countFrom == nameEnd + Len(CommandGet)
        countEnd == SpanEnd(text, countFrom, Digits)
    IN  IF /\ LiteralAt(text, 1, CommandHead)
           /\ nameEnd > nameFrom
           /\ LiteralAt(text, nameEnd, CommandGet)
           /\ countEnd > countFrom
           /\ LiteralAt(text, countEnd, CommandPost)
        THEN Some([username |-> SubSeq(text, nameFrom, nameEnd - 1),
                   count |-> SubSeq(text, countFrom, countEnd - 1)])
        ELSE None

(***************************************************************************)
(* The commands the model runs.                                            *)
(***************************************************************************)
MakeCommand(head, name, count, tail) == head \o name \o CommandGet \o count \o tail

\* Commands of the documented form, for user u and count n.
WellFormed(u, n) ==
    { MakeCommand(CommandHead, u, IntToStr(n), CommandPost \o << "s" >>) }
    \cup (IF n = 1
          THEN { MakeCommand(CommandHead, u, << "0", "1" >>, CommandPost) }
          ELSE {})
    \cup (IF n = 2
          THEN { MakeCommand(CommandHead, u, IntToStr(n),
                             CommandPost \o << "s", " ", "n", "o", "w" >>) }
          ELSE {})

WellFormedCommands == UNION { WellFormed(UserName, n) : n \in 0..MaxRequested }

MalformedCommands ==
    { ShowMeStuff,
      DocstringCommand,
      << >>,
      \* not at the start of the string
      << " " >> \o MakeCommand(CommandHead, UserName, << "2" >>, CommandPost),
      \* the literal is case sensitive
      MakeCommand(<< "A" >> \o Tail(CommandHead), UserName, << "2" >>, CommandPost),
      \* no user name
      MakeCommand(CommandHead, << >>, << "2" >>, CommandPost),
      \* a user name that is not all word characters
      MakeCommand(CommandHead, << "a", "-", "b" >>, << "2" >>, CommandPost),
      \* no count, a signed count
      MakeCommand(CommandHead, UserName, << >>, CommandPost),
      MakeCommand(CommandHead, UserName, << "-", "1" >>, CommandPost),
      \* "tweets" for "posts"
      MakeCommand(CommandHead, UserName, << "2" >>, << " ", "t", "w", "e", "e", "t", "s" >>) }

Commands == WellFormedCommands \cup MalformedCommands


(***************************************************************************)
(* What a browser call can raise.  playwright's TimeoutError is the class  *)
(* the program imports under the name TimeoutError; both are Exceptions.   *)
(***************************************************************************)
TimeoutError == [kind |-> "TimeoutError", text |-> TimeoutText]

OtherError == [kind |-> "Error", text |-> CrashText]

Exceptions == { TimeoutError, OtherError }

\* The outcome of a call that returns nothing of interest: None, or what it raised.
MaybeRaise == { None } \cup { Some(e) : e \in Exceptions }

\* str(e)
Str(e) == e.text

Heights == 0..MaxHeight

(***************************************************************************)
(* The texts an error banner may hold: the documented one, and texts just  *)
(* below, at and above the 200 character cut.  Character i of a long text  *)
(* is the last digit of i, so that a cut at the wrong place shows.         *)
(***************************************************************************)
LongText(n) == [i \in 1..n |-> DigitChars[(i % 10) + 1]]

BannerTexts ==
    { MissingAccountBanner }
    \cup { LongText(n) : n \in (BannerLimit - 1)..(BannerLimit + BannerSlack) }

(***************************************************************************)
(* Rendered posts.  A post element answers each of the four field lookups  *)
(* with None (the wait for the sub-element, or the read of its text,       *)
(* raised) or with the raw text of the sub-element.                        *)
(***************************************************************************)
MetricTypes == { "like", "retweet", "reply" }

FullPost ==
    [content |-> Some(<< " ", "h", "i", "\n" >>),
     like |-> Some(<< "7" >>),
     retweet |-> Some(<< "1", "2" >>),
     reply |-> Some(<< " ", "3" >>)]

BrokenPost == [content |-> None, like |-> None, retweet |-> None, reply |-> None]

\* The posts the page may render: every field found, none found, one field
\* not found, a metric whose text is empty, a metric whose text is blank.
RenderedPosts ==
    { FullPost, BrokenPost, [FullPost EXCEPT !.content = None] }
    \cup { [FullPost EXCEPT ![m] = None] : m \in MetricTypes }
    \cup { [FullPost EXCEPT !.like = Some(<< >>)],
           [FullPost EXCEPT !.retweet = Some(<< " ", "\t" >>)] }

\* One run of _process_post as the environment shapes it: the post element,
\* and whether datetime.now() answers.
Extractions ==
    { [post |-> p, clockOk |-> TRUE] : p \in RenderedPosts }
    \cup { [post |-> p, clockOk |-> FALSE] : p \in { FullPost, BrokenPost } }

(***************************************************************************)
(* The browser methods the program calls.  "scroll" and "height" are the   *)
(* two scripts page.evaluate is given; "field" is a post element's         *)
(* wait_for_selector, "wait_for_selector" the page's.                      *)
(***************************************************************************)
Methods ==
    { "start", "launch", "new_page", "goto", "query_selector", "inner_text",
      "wait_for_selector", "query_selector_all", "scroll", "wait_for_timeout",
      "height", "field", "close", "stop" }

\* The call counts after the calls of made, a sequence of methods, in order.
Count(made, m) == Cardinality({ i \in 1..Len(made) : made[i] = m })

Called(counts, made) == [m \in Methods |-> counts[m] + Count(made, m)]

(***************************************************************************)
(* State.                                                                  *)
(***************************************************************************)
VARIABLES
    pc,             \* where the program is
    command,        \* args.command
    stdout,         \* what was printed: None, or the object given to json.dumps
    exitStatus,     \* None while running, then the process's exit status
    args,           \* scrape_profile's username and post_count
    result,         \* scrape_profile's result
    nav_error,      \* scrape_profile's nav_error
    frame,          \* _auto_scroll's locals; as on entry before the call and
                    \* after its return, as the traceback holds them after a raise
    posts,          \* scrape_profile's posts: the element handles
    idx,            \* the extraction loop's idx
    pageHeight,     \* the loaded page's document.body.scrollHeight
    clock,          \* the environment's clock
    calls,          \* how often each browser method was called
    faults,         \* the stages in which a call raised to scrape_profile's body
    nav,            \* what _navigate_to_profile met: the banner read, the call
                    \* that raised and what it raised
    scrollEffects,  \* per scroll made, whether it changed the page's height
    scrollExit,     \* None, or how _auto_scroll ended and what it logged
    rendered,       \* None, or the number of post elements the enumeration found
    sources         \* per extracted post, the Extractions member it came from

vars ==
    << pc, command, stdout, exitStatus, args, result, nav_error, frame, posts,
       idx, pageHeight, clock, calls, faults, nav, scrollEffects, scrollExit,
       rendered, sources >>

\* The result dictionary scrape_profile starts with.
NewResult(username, post_count) ==
    [username |-> username,
     requested_posts |-> post_count,
     scraped_posts |-> 0,
     posts |-> << >>,
     errors |-> << >>]

\* _auto_scroll's locals on entry.
NewFrame == [last_height |-> 0, current_count |-> 0, scroll_attempt |-> 0]

\* Before scrape_profile is entered there is no result; the variable holds
\* this placeholder, which nothing reads.
NoArgs == [username |-> << >>, post_count |-> 0]

Init ==
    /\ pc = "main"
    /\ command \in Commands
    /\ stdout = None
    /\ exitStatus = None
    /\ args = NoArgs
    /\ result = NewResult(<< >>, 0)
    /\ nav_error = None
    /\ frame = NewFrame
    /\ posts = << >>
    /\ idx = 0
    /\ pageHeight = 0
    /\ clock = 0
    /\ calls = [m \in Methods |-> 0]
    /\ faults = {}
    /\ nav = [banner |-> None, raised |-> None]
    /\ scrollEffects = << >>
    /\ scrollExit = None
    /\ rendered = None
    /\ sources = << >>

(***************************************************************************)
(* __main__: parse the command, then either refuse it or run the scrape.   *)
(***************************************************************************)
Main ==
    /\ pc = "main"
    /\ LET match == MatchCommand(command)
       IN  IF match = None
           THEN /\ stdout' = Some([error |-> InvalidCommandFormat])
                /\ exitStatus' = Some(1)
                /\ pc' = "exited"
                /\ UNCHANGED << args, result >>
           ELSE /\ args' = [username |-> match[1].username,
                            post_count |-> ParseInt(match[1].count)]
                /\ result' = NewResult(match[1].username, ParseInt(match[1].count))
                /\ pc' = "launch"
                /\ UNCHANGED << stdout, exitStatus >>
    /\ UNCHANGED << command, nav_error, frame, posts, idx, pageHeight, clock,
                    calls, faults, nav, scrollEffects, scrollExit, rendered,
                    sources >>

(***************************************************************************)
(* scrape_profile, lines 58-60: enter the playwright context, launch the   *)
(* browser, open a page.  Neither call is inside the try statement: what   *)
(* it raises leaves scrape_profile through the with statement, which stops *)
(* playwright, and ends the process with a traceback.                      *)
(***************************************************************************)
Launch ==
    /\ pc = "launch"
    /\ \E raised \in MaybeRaise :
         IF raised = None
         THEN /\ calls' = Called(calls, << "start", "launch" >>)
              /\ pc' = "new_page"
              /\ UNCHANGED << faults, exitStatus >>
         ELSE /\ calls' = Called(calls, << "start", "launch", "stop" >>)
              /\ faults' = faults \cup { "launch" }
              /\ exitStatus' = Some(1)
              /\ pc' = "crashed"
    /\ UNCHANGED << command, stdout, args, result, nav_error, frame, posts, idx,
                    pageHeight, clock, nav, scrollEffects, scrollExit, rendered,
                    sources >>

NewPage ==
    /\ pc = "new_page"
    /\ \E raised \in MaybeRaise :
         IF raised = None
         THEN /\ calls' = Called(calls, << "new_page" >>)
              /\ pc' = "navigate"
              /\ UNCHANGED << faults, exitStatus >>
         ELSE /\ calls' = Called(calls, << "new_page", "stop" >>)
              /\ faults' = faults \cup { "new_page" }
              /\ exitStatus' = Some(1)
              /\ pc' = "crashed"
    /\ UNCHANGED << command, stdout, args, result, nav_error, frame, posts, idx,
                    pageHeight, clock, nav, scrollEffects, scrollExit, rendered,
                    sources >>


(***************************************************************************)
(* _navigate_to_profile.  page is what the browser does on each call, in   *)
(* order: goto, query_selector for the error banner, inner_text of the     *)
(* banner, wait_for_selector for the first post.  The result is the error  *)
(* string (None for success), the calls made, the banner found and the     *)
(* call that raised.                                                       *)
(***************************************************************************)
\* As NavigationFailure, with the second except clause only.
NavigationFailureUnsorted(e) == NavigationErrorPrefix \o Str(e)

\* The two except clauses: TimeoutError first, then any Exception.
NavigationFailure(e) ==
    IF e.kind = "TimeoutError"
    THEN TimeoutMessage
    ELSE NavigationErrorPrefix \o Str(e)

\* As ProfileError, without the cut.
ProfileErrorUncut(text) == ProfileErrorPrefix \o text

\* f"Profile error: {error_element.inner_text()[:200]}"
ProfileError(text) == ProfileErrorPrefix \o Take(text, BannerLimit)

NavigateToProfile(page) ==
    IF page.goto # None
    THEN [error |-> NavigationFailure(page.goto[1]),
          made |-> << "goto" >>,
          banner |-> None,
          raised |-> Some([at |-> "goto", exc |-> page.goto[1]])]
    ELSE IF page.query # None
    THEN [error |-> NavigationFailure(page.query[1]),
          made |-> << "goto", "query_selector" >>,
          banner |-> None,
          raised |-> Some([at |-> "query_selector", exc |-> page.query[1]])]
    ELSE IF page.banner # None
    THEN IF page.read # None
         THEN [error |-> NavigationFailure(page.read[1]),
               made |-> << "goto", "query_selector", "inner_text" >>,
               banner |-> None,
               raised |-> Some([at |-> "inner_text", exc |-> page.read[1]])]
         ELSE [error |-> ProfileError(page.banner[1]),
               made |-> << "goto", "query_selector", "inner_text" >>,
               banner |-> page.banner,
               raised |-> None]
    ELSE IF page.wait # None
    THEN [error |-> NavigationFailure(page.wait[1]),
          made |-> << "goto", "query_selector", "wait_for_selector" >>,
          banner |-> None,
          raised |-> Some([at |-> "wait_for_selector", exc |-> page.wait[1]])]
    ELSE [error |-> None,
          made |-> << "goto", "query_selector", "wait_for_selector" >>,
          banner |-> None,
          raised |-> None]

\* What the browser may do during navigation.
Pages ==
    [goto : MaybeRaise,
     query : MaybeRaise,
     banner : { None } \cup { Some(t) : t \in BannerTexts },
     read : MaybeRaise,
     wait : MaybeRaise]

(***************************************************************************)
(* scrape_profile, lines 62-67: navigate; on an error record it and return *)
(* through the finally clause.                                             *)
(***************************************************************************)
\* As AfterNavigation, without the early return.
AfterNavigationGoOn(error) == "scroll"

\* if nav_error: ... return result
AfterNavigation(error) == IF error # None THEN "finally" ELSE "scroll"

Navigate ==
    /\ pc = "navigate"
    /\ \E page \in Pages, height \in Heights :
         LET r == NavigateToProfile(page)
         IN  /\ nav_error' = r.error
             /\ pageHeight' = IF r.error = None THEN height ELSE pageHeight
             /\ calls' = Called(calls, r.made)
             /\ nav' = [banner |-> r.banner, raised |-> r.raised]
             /\ result' = IF r.error # None
                          THEN [result EXCEPT !.errors = Append(@, r.error)]
                          ELSE result
             /\ pc' = AfterNavigation(r.error)
    /\ frame' = NewFrame
    /\ UNCHANGED << command, stdout, exitStatus, args, posts, idx, clock,
                    faults, scrollEffects, scrollExit, rendered, sources >>

(***************************************************************************)
(* The except clause of scrape_profile: record the fault.                  *)
(***************************************************************************)
RuntimeError(e) == RuntimeErrorPrefix \o Str(e)

\* As Caught, recording nothing.
CaughtSilently(res, e) == res

Caught(res, e) == [res EXCEPT !.errors = Append(@, RuntimeError(e))]

(***************************************************************************)
(* _auto_scroll: one iteration of the while loop.  page is what the        *)
(* browser does: count is the number of post elements query_selector_all   *)
(* finds, height the page's height after the scroll, raised the call that  *)
(* raises (None when none does) and what it raises.                        *)
(***************************************************************************)
ScrollCalls == << "query_selector_all", "scroll", "wait_for_timeout", "height" >>

\* The position in ScrollCalls of the call that raises; 0 for none.
RaisesAt(page) ==
    IF page.raised = None THEN 0
    ELSE CHOOSE i \in 1..Len(ScrollCalls) : ScrollCalls[i] = page.raised[1].at

\* As TargetReached, with > for >=.
TargetExceeded(current_count, target_count) == current_count > target_count

\* current_count >= target_count
TargetReached(current_count, target_count) == current_count >= target_count

\* new_height == last_height
ScrollFailed(new_height, last_height) == new_height = last_height

\* As ScrollIteration, without scroll_attempt += 1.
ScrollIterationUncounted(locals, target_count, page) ==
    LET at == RaisesAt(page)
        counted == [locals EXCEPT !.current_count = page.count]
    IN  IF at = 1
        THEN [next |-> "raise", frame |-> locals, made |-> SubSeq(ScrollCalls, 1, 1)]
        ELSE IF TargetReached(page.count, target_count)
        THEN [next |-> "target", frame |-> counted, made |-> SubSeq(ScrollCalls, 1, 1)]
        ELSE IF at > 0
        THEN [next |-> "raise", frame |-> counted, made |-> SubSeq(ScrollCalls, 1, at)]
        ELSE IF ScrollFailed(page.height, locals.last_height)
        THEN [next |-> "exhausted", frame |-> counted, made |-> ScrollCalls]
        ELSE [next |-> "loop",
              frame |-> [counted EXCEPT !.last_height = page.height],
              made |-> ScrollCalls]

ScrollIteration(locals, target_count, page) ==
    LET at == RaisesAt(page)
        counted == [locals EXCEPT !.current_count = page.count]
    IN  IF at = 1
        THEN [next |-> "raise", frame |-> locals, made |-> SubSeq(ScrollCalls, 1, 1)]
        ELSE IF TargetReached(page.count, target_count)
        THEN [next |-> "target", frame |-> counted, made |-> SubSeq(ScrollCalls, 1, 1)]
        ELSE IF at > 0
        THEN [next |-> "raise", frame |-> counted, made |-> SubSeq(ScrollCalls, 1, at)]
        ELSE IF ScrollFailed(page.height, locals.last_height)
        THEN [next |-> "exhausted", frame |-> counted, made |-> ScrollCalls]
        ELSE [next |-> "loop",
              frame |-> [counted EXCEPT !.last_height = page.height,
                                        !.scroll_attempt = @ + 1],
              made |-> ScrollCalls]

ScrollPages ==
    [count : 0..MaxRendered,
     height : Heights,
     raised : { None }
              \cup { Some([at |-> ScrollCalls[i], exc |-> e]) :
                       i \in 1..Len(ScrollCalls), e \in Exceptions }]

\* What _auto_scroll logs when it returns, and how the loop ended.
ScrollLog(how, locals) ==
    Some([how |-> how,
          loaded |-> locals.current_count,
          scrolls |-> locals.scroll_attempt])

AutoScrollStep ==
    /\ pc = "scroll"
    /\ frame.scroll_attempt < ScrollAttempts
    /\ \E page \in ScrollPages :
         LET r == ScrollIteration(frame, args.post_count, page)
             scrolled == Count(r.made, "scroll") = 1 /\ RaisesAt(page) # 2
         IN  /\ frame' = IF r.next \in { "loop", "raise" } THEN r.frame ELSE NewFrame
             /\ calls' = Called(calls, r.made)
             /\ pageHeight' = IF scrolled THEN page.height ELSE pageHeight
             /\ scrollEffects' = IF scrolled
                                 THEN Append(scrollEffects, page.height # pageHeight)
                                 ELSE scrollEffects
             /\ CASE r.next = "loop" ->
                       /\ pc' = "scroll"
                       /\ UNCHANGED << result, faults, scrollExit >>
                  [] r.next \in { "target", "exhausted" } ->
                       /\ pc' = "enumerate"
                       /\ scrollExit' = ScrollLog(r.next, r.frame)
                       /\ UNCHANGED << result, faults >>
                  [] r.next = "raise" ->
                       /\ pc' = "finally"
                       /\ result' = Caught(result, page.raised[1].exc)
                       /\ faults' = faults \cup { "scroll" }
                       /\ UNCHANGED scrollExit
    /\ UNCHANGED << command, stdout, exitStatus, args, nav_error, posts, idx,
                    clock, nav, rendered, sources >>

\* The while condition fails: the attempt ceiling.
AutoScrollCeiling ==
    /\ pc = "scroll"
    /\ ~(frame.scroll_attempt < ScrollAttempts)
    /\ scrollExit' = ScrollLog("ceiling", frame)
    /\ frame' = NewFrame
    /\ pc' = "enumerate"
    /\ UNCHANGED << command, stdout, exitStatus, args, result, nav_error,
                    posts, idx, pageHeight, clock, calls, faults, nav,
                    scrollEffects, rendered, sources >>


(***************************************************************************)
(* scrape_profile, lines 73-76: enumerate the post elements, keep at most  *)
(* post_count of them, record how many were kept.                          *)
(***************************************************************************)
\* The handles of r elements, in document order.
Handles(r) == [i \in 1..r |-> i]

\* As Truncate, keeping one element more.
TruncateLate(elements, post_count) == Take(elements, post_count + 1)

\* As Truncate, keeping every element.
TruncateNothing(elements, post_count) == elements

\* posts[:post_count], for post_count >= 0
Truncate(elements, post_count) == Take(elements, post_count)

Enumerate ==
    /\ pc = "enumerate"
    /\ calls' = Called(calls, << "query_selector_all" >>)
    /\ \E raised \in MaybeRaise, r \in 0..MaxRendered :
         IF raised # None
         THEN /\ result' = Caught(result, raised[1])
              /\ faults' = faults \cup { "enumerate" }
              /\ pc' = "finally"
              /\ UNCHANGED << posts, idx, rendered >>
         ELSE LET kept == Truncate(Handles(r), args.post_count)
              IN  /\ posts' = kept
                  /\ rendered' = Some(r)
                  /\ result' = [result EXCEPT !.scraped_posts = Len(kept)]
                  /\ idx' = 1
                  /\ pc' = "extract"
                  /\ UNCHANGED faults
    /\ UNCHANGED << command, stdout, exitStatus, args, nav_error, frame,
                    pageHeight, clock, nav, scrollEffects, scrollExit, sources >>

(***************************************************************************)
(* _process_post and the two field readers.  parent is the post element:   *)
(* per field, None when the lookup raised, else the raw text.  The bare    *)
(* except clauses turn every fault of a lookup into the sentinel.  now is  *)
(* None when datetime.now() raises, the one call outside those guards.     *)
(* The timestamp is the clock's reading; its text form is not modelled.    *)
(***************************************************************************)
GetElementText(parent, element_type) ==
    IF parent[element_type] = None
    THEN ContentUnavailable
    ELSE Strip(parent[element_type][1])

\* As GetMetric, with the default of an empty text also for a failed lookup.
GetMetricZeroOnFault(parent, metric_type) ==
    IF parent[metric_type] = None
    THEN MetricZero
    ELSE LET text == Strip(parent[metric_type][1])
         IN  IF text = << >> THEN MetricZero ELSE text

\* element.inner_text().strip() or '0'
GetMetric(parent, metric_type) ==
    IF parent[metric_type] = None
    THEN MetricUnavailable
    ELSE LET text == Strip(parent[metric_type][1])
         IN  IF text = << >> THEN MetricZero ELSE text

\* As ProcessPost, giving up when a field lookup failed.
ProcessPostStrict(post_element, position, now) ==
    IF now = None \/ \E f \in DOMAIN post_element : post_element[f] = None
    THEN None
    ELSE Some([position |-> position,
               content |-> GetElementText(post_element, "content"),
               likes |-> GetMetric(post_element, "like"),
               retweets |-> GetMetric(post_element, "retweet"),
               replies |-> GetMetric(post_element, "reply"),
               timestamp |-> now[1]])

\* As ProcessPost, giving up when the content lookup failed.
ProcessPostNeedsContent(post_element, position, now) ==
    IF now = None \/ post_element["content"] = None
    THEN None
    ELSE Some([position |-> position,
               content |-> GetElementText(post_element, "content"),
               likes |-> GetMetric(post_element, "like"),
               retweets |-> GetMetric(post_element, "retweet"),
               replies |-> GetMetric(post_element, "reply"),
               timestamp |-> now[1]])

\* As ProcessPost, numbering the record by the clock instead of the position given.
ProcessPostByClock(post_element, position, now) ==
    IF now = None
    THEN None
    ELSE Some([position |-> now[1],
               content |-> GetElementText(post_element, "content"),
               likes |-> GetMetric(post_element, "like"),
               retweets |-> GetMetric(post_element, "retweet"),
               replies |-> GetMetric(post_element, "reply"),
               timestamp |-> now[1]])

ProcessPost(post_element, position, now) ==
    IF now = None
    THEN None
    ELSE Some([position |-> position,
               content |-> GetElementText(post_element, "content"),
               likes |-> GetMetric(post_element, "like"),
               retweets |-> GetMetric(post_element, "retweet"),
               replies |-> GetMetric(post_element, "reply"),
               timestamp |-> now[1]])

\* f"Failed to process post {idx}"
FailedPost(position) == FailedPostPrefix \o IntToStr(position)

\* As Collected, naming the next position in the failure message.
CollectedUnderNext(res, post_data, position) ==
    IF post_data # None
    THEN [res EXCEPT !.posts = Append(@, post_data[1])]
    ELSE [res EXCEPT !.errors = Append(@, FailedPost(position + 1))]

\* As Collected, dropping a failed post without a message.
CollectedSilently(res, post_data, position) ==
    IF post_data # None
    THEN [res EXCEPT !.posts = Append(@, post_data[1])]
    ELSE res

\* Lines 79-82: keep the record, or record the failure.
Collected(res, post_data, position) ==
    IF post_data # None
    THEN [res EXCEPT !.posts = Append(@, post_data[1])]
    ELSE [res EXCEPT !.errors = Append(@, FailedPost(position))]

\* The four field lookups of one _process_post.
FieldCalls == << "field", "field", "field", "field" >>

(***************************************************************************)
(* scrape_profile, lines 77-84: the extraction loop, one element per step, *)
(* then the return.                                                        *)
(***************************************************************************)
ExtractPost ==
    /\ pc = "extract"
    /\ idx <= Len(posts)
    /\ \E x \in Extractions :
         LET now == IF x.clockOk THEN Some(clock) ELSE None
             post_data == ProcessPost(x.post, idx, now)
         IN  /\ result' = Collected(result, post_data, idx)
             /\ sources' = Append(sources, x)
    /\ calls' = Called(calls, FieldCalls)
    /\ clock' = clock + 1
    /\ idx' = idx + 1
    /\ pc' = "extract"
    /\ UNCHANGED << command, stdout, exitStatus, args, nav_error, frame, posts,
                    pageHeight, faults, nav, scrollEffects, scrollExit, rendered >>

ExtractDone ==
    /\ pc = "extract"
    /\ idx > Len(posts)
    /\ pc' = "finally"
    /\ UNCHANGED << command, stdout, exitStatus, args, result, nav_error, frame,
                    posts, idx, pageHeight, clock, calls, faults, nav,
                    scrollEffects, scrollExit, rendered, sources >>

(***************************************************************************)
(* The finally clause, line 91, the end of the with statement and, when    *)
(* scrape_profile returns, the print of __main__.  What browser.close()    *)
(* raises replaces the return and ends the process with a traceback.       *)
(***************************************************************************)
Close ==
    /\ pc = "finally"
    /\ calls' = Called(calls, << "close", "stop" >>)
    /\ \E raised \in MaybeRaise :
         IF raised = None
         THEN /\ stdout' = Some(result)
              /\ exitStatus' = Some(0)
              /\ pc' = "done"
              /\ UNCHANGED faults
         ELSE /\ faults' = faults \cup { "close" }
              /\ exitStatus' = Some(1)
              /\ pc' = "crashed"
              /\ UNCHANGED stdout
    /\ UNCHANGED << command, args, result, nav_error, frame, posts, idx,
                    pageHeight, clock, nav, scrollEffects, scrollExit, rendered,
                    sources >>

Next ==
    \/ Main
    \/ Launch
    \/ NewPage
    \/ Navigate
    \/ AutoScrollStep
    \/ AutoScrollCeiling
    \/ Enumerate
    \/ ExtractPost
    \/ ExtractDone
    \/ Close

Spec == Init /\ [][Next]_vars

\* The program up to the return of _auto_scroll.  The program is sequential
\* and every call it makes returns or raises, each wait being bounded by its
\* timeout: a step that can be taken is taken.
ScrollNext ==
    \/ Main
    \/ Launch
    \/ NewPage
    \/ Navigate
    \/ AutoScrollStep
    \/ AutoScrollCeiling

SpecScroll == Init /\ [][ScrollNext]_vars /\ WF_vars(ScrollNext)


(***************************************************************************)
(* _process_post run twice on one post element at one position, at         *)
(* different times: the second run meets the element as the first did.     *)
(***************************************************************************)
TwiceInit ==
    /\ pc = "twice"
    /\ command = << >>
    /\ stdout = None
    /\ exitStatus = None
    /\ args = NoArgs
    /\ result = NewResult(<< >>, 0)
    /\ nav_error = None
    /\ frame = NewFrame
    /\ posts = << 1 >>
    /\ idx \in 1..MaxRequested
    /\ pageHeight = 0
    /\ clock \in 0..MaxClock
    /\ calls = [m \in Methods |-> 0]
    /\ faults = {}
    /\ nav = [banner |-> None, raised |-> None]
    /\ scrollEffects = << >>
    /\ scrollExit = None
    /\ rendered = None
    /\ sources = << >>

ProcessTwice ==
    /\ pc = "twice"
    /\ Len(sources) < 2
    /\ \E x \in Extractions :
         LET now == IF x.clockOk THEN Some(clock) ELSE None
             post_data == ProcessPost(x.post, idx, now)
         IN  /\ sources # << >> => x.post = sources[1].post
             /\ result' = Collected(result, post_data, idx)
             /\ sources' = Append(sources, x)
    /\ calls' = Called(calls, FieldCalls)
    /\ clock' = clock + 1
    /\ UNCHANGED << pc, command, stdout, exitStatus, args, nav_error, frame,
                    posts, idx, pageHeight, faults, nav, scrollEffects,
                    scrollExit, rendered >>

TwiceNext == ProcessTwice

SpecTwice == TwiceInit /\ [][TwiceNext]_vars

(***************************************************************************)
(* Notions the properties share.                                           *)
(***************************************************************************)
\* scrape_profile returned its result and __main__ printed it.
Returned == pc = "done"

\* The process has ended.
Ended == pc \in { "done", "crashed", "exited" }

\* The entries of a result's errors that start with the string p.
ErrorsWith(res, p) ==
    { i \in 1..Len(res.errors) : StartsWith(res.errors[i], p) }

\* "Failed to process post"
FailedPostMark == SubSeq(FailedPostPrefix, 1, Len(FailedPostPrefix) - 1)

\* "Runtime error"
RuntimeErrorMark == SubSeq(RuntimeErrorPrefix, 1, Len(RuntimeErrorPrefix) - 2)

\* The post element the i-th record of the result was read from.
SourceOf(i) == sources[result.posts[i].position].post

\* A record without its timestamp.
Untimed(record) == [f \in (DOMAIN record) \ { "timestamp" } |-> record[f]]

(***************************************************************************)
(* C1.  A run in which navigation succeeds and nothing raises returns      *)
(* scraped_posts = min(N, R): N the count the command asks for, R the      *)
(* number of post elements the enumeration after _auto_scroll finds.       *)
(***************************************************************************)
C1_ScrapedIsMinOfRequestedAndRendered ==
    (Returned /\ nav_error = None /\ faults = {})
    => /\ rendered # None
       /\ \A n \in 0..MaxRequested :
            command \in WellFormed(UserName, n) => result.requested_posts = n
       /\ stdout = Some(result)
       /\ result.scraped_posts = Min(result.requested_posts, rendered[1])
       /\ Len(result.posts) <= result.scraped_posts

\* More posts asked for than the page renders.
C1_Witness ==
    /\ Returned /\ nav_error = None /\ faults = {}
    /\ rendered # None
    /\ rendered[1] >= 1
    /\ rendered[1] < result.requested_posts

(***************************************************************************)
(* C2.  In every result scrape_profile returns, the number of posts plus   *)
(* the number of errors that start with "Failed to process post" is        *)
(* scraped_posts.                                                          *)
(***************************************************************************)
C2_PostsPlusFailuresIsScraped ==
    Returned
    => /\ stdout = Some(result)
       /\ Len(result.posts) + Cardinality(ErrorsWith(result, FailedPostMark))
            = result.scraped_posts

\* A returned result with a record and a failure.
C2_Witness ==
    /\ Returned
    /\ Len(result.posts) >= 1
    /\ Cardinality(ErrorsWith(result, FailedPostMark)) >= 1

(***************************************************************************)
(* C3.  Once the browser is launched, browser.close() is called exactly    *)
(* once before scrape_profile returns or raises.                           *)
(***************************************************************************)
C3_BrowserClosedExactlyOnce ==
    (Ended /\ calls["launch"] = 1 /\ "launch" \notin faults)
    => calls["close"] = 1

(***************************************************************************)
(* C4.  When _navigate_to_profile returns an error, nothing is scrolled,   *)
(* enumerated or extracted, scrape_profile goes to its exit, and the       *)
(* result holds that one error, no post and scraped_posts = 0.             *)
(***************************************************************************)
C4_NavigationErrorShortCircuits ==
    nav_error # None
    => /\ pc \in { "finally", "done", "crashed" }
       /\ pc = "crashed" => "close" \in faults
       /\ \A m \in { "query_selector_all", "scroll", "wait_for_timeout",
                     "height", "field" } : calls[m] = 0
       /\ result.errors = << nav_error >>
       /\ result.posts = << >>
       /\ result.scraped_posts = 0
       /\ Returned => stdout = Some(result)

\* A returned run whose navigation failed with a fault other than a timeout.
C4_Witness ==
    /\ Returned
    /\ nav_error # None
    /\ StartsWith(nav_error, NavigationErrorPrefix)

(***************************************************************************)
(* C5.  On a page whose post count stays below the target and whose height *)
(* stops changing after k scrolls, 0 <= k < 5, _auto_scroll makes exactly  *)
(* k + 1 scroll-and-measure cycles and stops as exhausted.                 *)
(***************************************************************************)
\* The scrolls made so far: the first k changed the height, the later ones did not.
StopsChangingAfter(k) ==
    /\ Len(scrollEffects) > k
    /\ \A i \in 1..Len(scrollEffects) : scrollEffects[i] <=> i <= k

C5_ExhaustedAfterKPlusOneCycles ==
    (scrollExit # None /\ scrollExit[1].how # "target")
    => \A k \in 0..(ScrollAttempts - 1) :
         StopsChangingAfter(k)
         => /\ calls["height"] = k + 1
            /\ scrollExit[1].how = "exhausted"

(***************************************************************************)
(* C6.  Every record of posts has its four fields; a field whose lookup    *)
(* failed is "Content unavailable" (content) or "N/A" (a metric); a field  *)
(* depends on its own lookup only: two records whose elements answer a     *)
(* field's lookup alike agree on that field, whatever their other fields.  *)
(***************************************************************************)
C6_SentinelPerField ==
    \A i \in 1..Len(result.posts) :
      LET record == result.posts[i]
          element == SourceOf(i)
      IN  /\ DOMAIN record = { "position", "content", "likes", "retweets",
                               "replies", "timestamp" }
          /\ element.content = None => record.content = ContentUnavailable
          /\ element.like = None => record.likes = MetricUnavailable
          /\ element.retweet = None => record.retweets = MetricUnavailable
          /\ element.reply = None => record.replies = MetricUnavailable
          /\ \A j \in 1..Len(result.posts) :
               LET other == result.posts[j]
               IN  /\ SourceOf(j).content = element.content
                        => other.content = record.content
                   /\ SourceOf(j).like = element.like
                        => other.likes = record.likes
                   /\ SourceOf(j).retweet = element.retweet
                        => other.retweets = record.retweets
                   /\ SourceOf(j).reply = element.reply
                        => other.replies = record.replies

\* Two records: one with a failed like lookup, one without; their other
\* fields were read alike.
C6_Witness ==
    \E i, j \in 1..Len(result.posts) :
      /\ SourceOf(i).like = None
      /\ SourceOf(j) = FullPost
      /\ result.posts[i].likes = MetricUnavailable
      /\ result.posts[j].likes # MetricUnavailable
      /\ result.posts[i].content = result.posts[j].content

(***************************************************************************)
(* C7.  A fault raised anywhere in scrape_profile (launch, page open,      *)
(* scrolling, enumeration, extraction) does not reach the caller: the run  *)
(* returns a result with exactly one "Runtime error" entry and the browser *)
(* closed.                                                                 *)
(***************************************************************************)
C7_FaultsAreCaught ==
    (Ended /\ faults # {})
    => /\ Returned
       /\ Cardinality(ErrorsWith(result, RuntimeErrorMark)) = 1
       /\ calls["close"] = 1

(***************************************************************************)
(* C8.  When the error banner is found and read, _navigate_to_profile      *)
(* returns "Profile error: " and the banner's text cut to 200 characters,  *)
(* without waiting for a post element; the result's errors are that one    *)
(* string and its posts are empty.                                         *)
(***************************************************************************)
C8_ProfileErrorFromBanner ==
    nav.banner # None
    => LET text == nav.banner[1]
           shown == SubSeq(nav_error, Len(ProfileErrorPrefix) + 1, Len(nav_error))
       IN  /\ StartsWith(nav_error, ProfileErrorPrefix)
           /\ Len(shown) <= BannerLimit
           /\ StartsWith(text, shown)
           /\ Len(text) <= BannerLimit => shown = text
           /\ Len(text) > BannerLimit => Len(shown) = BannerLimit
           /\ calls["wait_for_selector"] = 0
           /\ result.errors = << nav_error >>
           /\ result.posts = << >>
           /\ Returned => stdout = Some(result)

\* A returned run whose banner was longer than the cut.
C8_Witness ==
    /\ Returned
    /\ nav.banner # None
    /\ Len(nav.banner[1]) > BannerLimit
    /\ Len(result.errors[1]) = Len(ProfileErrorPrefix) + BannerLimit

C11_ScrollingEndsWithinCeiling ==
    /\ [](/\ calls["scroll"] <= ScrollAttempts
          /\ frame.scroll_attempt <= ScrollAttempts)
    /\ [][(pc = "scroll" /\ pc' = "scroll")
            => frame'.scroll_attempt = frame.scroll_attempt + 1]_vars
    /\ (pc = "scroll") ~> (pc # "scroll")

\* The ceiling was reached on a page that grew on every scroll and never
\* showed the posts asked for.
C11_Witness ==
    /\ scrollExit # None
    /\ scrollExit[1].how = "ceiling"
    /\ scrollExit[1].loaded < args.post_count
    /\ calls["scroll"] = ScrollAttempts
    /\ \A i \in 1..Len(scrollEffects) : scrollEffects[i]


(***************************************************************************)
(* C12.  Every scroll to the bottom follows, in the same iteration, a      *)
(* fresh count of the post elements that is below target_count; a height   *)
(* is measured only after a scroll; when the first count reaches the       *)
(* target, as it always does for target_count = 0, _auto_scroll neither    *)
(* scrolls nor measures.                                                   *)
(***************************************************************************)
\* The count the iteration just made took.
Sampled ==
    IF scrollExit' # scrollExit
    THEN scrollExit'[1].loaded
    ELSE frame'.current_count

C12_ScrollOnlyBelowTarget ==
    /\ [][calls'["scroll"] # calls["scroll"]
            => /\ calls'["scroll"] = calls["scroll"] + 1
               /\ calls'["query_selector_all"] = calls["query_selector_all"] + 1
               /\ Sampled < args.post_count]_vars
    /\ [][calls'["height"] # calls["height"]
            => /\ calls'["height"] = calls["height"] + 1
               /\ calls'["scroll"] = calls["scroll"] + 1]_vars
    /\ []((scrollExit # None /\ scrollExit[1].how = "target"
             /\ scrollExit[1].scrolls = 0)
          => (calls["scroll"] = 0 /\ calls["height"] = 0))
    /\ []((args.post_count = 0 /\ pc \notin { "main", "exited" })
          => (calls["scroll"] = 0 /\ calls["height"] = 0
              /\ calls["wait_for_timeout"] = 0))

\* A run for a positive target whose first count reached it: _auto_scroll
\* returned without a scroll.
C12_Witness ==
    /\ args.post_count > 0
    /\ scrollExit # None
    /\ scrollExit[1].how = "target"
    /\ scrollExit[1].loaded >= args.post_count
    /\ calls["query_selector_all"] = 1
    /\ calls["scroll"] = 0


(***************************************************************************)
(* C13.  As claimed: when the wait for the first post fails, by its        *)
(* timeout or otherwise, the navigator returns "Navigation error: ..."     *)
(* and not the timeout message.                                            *)
(***************************************************************************)
\* The wait for the first post raised.
ContentWaitRaised ==
    /\ nav.raised # None
    /\ nav.raised[1].at = "wait_for_selector"

C13_ContentWaitFaultIsNavigationError ==
    ContentWaitRaised
        => /\ StartsWith(nav_error, NavigationErrorPrefix)
           /\ nav_error # TimeoutMessage

(***************************************************************************)
(* C13, amended.  The error is chosen by the kind of the fault, not by the *)
(* call that raised: a timeout of the wait for the first post returns the  *)
(* same "Timeout waiting for profile to load" as a timeout of the          *)
(* navigation request; any other fault of either call returns "Navigation  *)
(* error: " followed by the fault's description.  The two are distinct.    *)
(***************************************************************************)
C13_ErrorFollowsFaultKind ==
    /\ TimeoutMessage # NavigationErrorPrefix \o Str(TimeoutError)
    /\ ~StartsWith(TimeoutMessage, NavigationErrorPrefix)
    /\ nav.raised # None
         => /\ nav.banner = None
            /\ nav.raised[1].exc.kind = "TimeoutError"
                 => nav_error = TimeoutMessage
            /\ nav.raised[1].exc.kind # "TimeoutError"
                 => nav_error = NavigationErrorPrefix \o Str(nav.raised[1].exc)
            /\ ContentWaitRaised
                 => /\ calls["goto"] = 1
                    /\ calls["query_selector"] = 1
                    /\ calls["wait_for_selector"] = 1
                    /\ calls["inner_text"] = 0

\* The wait for the first post timed out and the run returned the timeout
\* message as its only error.
C13_Witness ==
    /\ Returned
    /\ ContentWaitRaised
    /\ nav.raised[1].exc = TimeoutError
    /\ result.errors = << TimeoutMessage >>


(***************************************************************************)
(* C14.  As claimed: _auto_scroll never raises to its caller; once the     *)
(* scrolling stage is left, it was left by one of the three silent         *)
(* terminations, also when a browser call in the loop faulted.             *)
(***************************************************************************)
\* The scrolling stage was entered and has been left.
ScrollingLeft ==
    /\ nav.banner = None /\ nav.raised = None
    /\ calls["wait_for_selector"] = 1
    /\ pc # "scroll"

SilentTerminations == { "target", "exhausted", "ceiling" }

C14_AutoScrollNeverRaises ==
    /\ "scroll" \notin faults
    /\ ScrollingLeft
         => /\ scrollExit # None
            /\ scrollExit[1].how \in SilentTerminations

(***************************************************************************)
(* C14, amended.  _auto_scroll has no handler of its own.  When no browser *)
(* call in the loop faults, the run ends in one of the three silent        *)
(* terminations and scrape_profile goes on to enumerate.  When one faults, *)
(* the fault leaves _auto_scroll, scrape_profile records it as its one     *)
(* "Runtime error: ..." entry, enumerates nothing and goes to close the    *)
(* browser.                                                                *)
(***************************************************************************)
\* What holds once the scrolling stage is left.
AfterScrolling ==
    /\ ScrollingLeft
         => \/ /\ "scroll" \notin faults
               /\ scrollExit # None
               /\ scrollExit[1].how \in SilentTerminations
            \/ /\ "scroll" \in faults
               /\ scrollExit = None
    /\ "scroll" \in faults
         => /\ ScrollingLeft
            /\ pc \in { "finally", "done", "crashed" }
            /\ rendered = None
            /\ calls["query_selector_all"] = frame.scroll_attempt + 1
            /\ Len(result.errors) = 1
            /\ \E e \in Exceptions : result.errors[1] = RuntimeError(e)
            /\ result.posts = << >>
            /\ result.scraped_posts = 0

C14_ScrollFaultIsRuntimeError ==
    /\ []AfterScrolling
    /\ [][(pc = "scroll" /\ pc' # "scroll")
            => IF "scroll" \in faults'
               THEN pc' = "finally" /\ result'.errors # result.errors
               ELSE pc' = "enumerate" /\ result' = result]_vars

\* A run returned after the scroll evaluation of the second iteration
\* raised.
C14_Witness ==
    /\ Returned
    /\ "scroll" \in faults
    /\ frame.scroll_attempt = 1
    /\ calls["scroll"] = 2
    /\ calls["wait_for_timeout"] = 1
    /\ ErrorsWith(result, RuntimeErrorMark) = { 1 }


(***************************************************************************)
(* C15.  A post element of which some field lookup failed, and whose       *)
(* record was otherwise built, is in posts under its position, with the    *)
(* sentinel in each failed field; no entry of errors is about it: errors   *)
(* holds a "Failed to process post k" exactly for the elements k whose     *)
(* timestamp could not be taken.                                           *)
(***************************************************************************)
\* The fields of post element k whose lookup failed.
FailedFields(k) ==
    { f \in DOMAIN sources[k].post : sources[k].post[f] = None }

\* The records of the result with position k.
RecordsOf(k) == { i \in 1..Len(result.posts) : result.posts[i].position = k }

\* The entries of errors that are the failure message of element k.
FailuresOf(k) ==
    { i \in 1..Len(result.errors) : result.errors[i] = FailedPost(k) }

C15_FieldFaultNotSurfaced ==
    /\ \A k \in 1..Len(sources) :
         (sources[k].clockOk /\ FailedFields(k) # {})
             => /\ Cardinality(RecordsOf(k)) = 1
                /\ FailuresOf(k) = {}
                /\ \A i \in RecordsOf(k) :
                     /\ ("content" \in FailedFields(k))
                          <=> (result.posts[i].content = ContentUnavailable)
                     /\ ("like" \in FailedFields(k))
                          <=> (result.posts[i].likes = MetricUnavailable)
                     /\ ("retweet" \in FailedFields(k))
                          <=> (result.posts[i].retweets = MetricUnavailable)
                     /\ ("reply" \in FailedFields(k))
                          <=> (result.posts[i].replies = MetricUnavailable)
    /\ Len(sources) > 0
         => Len(result.errors)
              = Cardinality({ k \in 1..Len(sources) : ~sources[k].clockOk })

\* The first element failed for its timestamp, the second lost its like
\* count only: one message, for the first, and one record, of the second.
C15_Witness ==
    /\ Returned
    /\ Len(sources) = 2
    /\ ~sources[1].clockOk
    /\ sources[2] = [post |-> [FullPost EXCEPT !.like = None], clockOk |-> TRUE]
    /\ result.errors = << FailedPost(1) >>
    /\ Len(result.posts) = 1
    /\ result.posts[1].position = 2
    /\ result.posts[1].likes = MetricUnavailable

(***************************************************************************)
(* C18.  While the only faults of the extraction are failed field lookups, *)
(* no _process_post returned absence: errors has no "Failed to process     *)
(* post" entry, every element processed so far has its record, and once    *)
(* the loop is over len(posts) = scraped_posts.                            *)
(***************************************************************************)
OnlyFieldFaults == \A k \in 1..Len(sources) : sources[k].clockOk

C18_OnlyFieldFaultsKeepEveryPost ==
    OnlyFieldFaults
        => /\ ErrorsWith(result, FailedPostMark) = {}
           /\ Len(result.posts) = Len(sources)
           /\ \A k \in 1..Len(sources) :
                ProcessPost(sources[k].post, k, Some(0)) # None
           /\ pc # "extract" => Len(result.posts) = result.scraped_posts

\* Navigation succeeded, two elements were extracted, every lookup of both
\* failed, and the result holds both records and no error.
C18_Witness ==
    /\ Returned
    /\ nav_error = None
    /\ faults = {}
    /\ Len(sources) = 2
    /\ \A k \in 1..2 : sources[k] = [post |-> BrokenPost, clockOk |-> TRUE]
    /\ result.scraped_posts = 2
    /\ Len(result.posts) = 2
    /\ result.errors = << >>


(***************************************************************************)
(* C16.  The extraction loop takes the elements 1..scraped_posts one per   *)
(* step in increasing order, each exactly once, whatever happened to the   *)
(* earlier ones: element i leaves either one record with position i or one *)
(* "Failed to process post i", never both; the positions in posts are      *)
(* strictly increasing and lie in 1..scraped_posts.                        *)
(***************************************************************************)
\* The elements processed so far are 1..Len(sources).
ProcessedOnceEach ==
    /\ calls["field"] = Len(FieldCalls) * Len(sources)
    /\ Len(sources) <= result.scraped_posts
    /\ pc = "extract"
         => /\ Len(sources) = idx - 1
            /\ Len(posts) = result.scraped_posts
    /\ (pc \in { "finally", "done" } /\ rendered # None)
         => Len(sources) = result.scraped_posts
    /\ \A k \in 1..(MaxRequested + 1) :
         IF k <= Len(sources)
         THEN Cardinality(RecordsOf(k)) + Cardinality(FailuresOf(k)) = 1
         ELSE RecordsOf(k) = {} /\ FailuresOf(k) = {}
    /\ Len(result.posts) + Len(result.errors) = Len(sources)
         \/ Len(sources) = 0
    /\ \A i \in 1..Len(result.posts) :
         /\ result.posts[i].position \in 1..result.scraped_posts
         /\ \A j \in 1..Len(result.posts) :
              i < j => result.posts[i].position < result.posts[j].position
    /\ \A i, j \in 1..Len(result.errors) :
         \A k, l \in 1..Len(sources) :
           (i < j /\ result.errors[i] = FailedPost(k)
                  /\ result.errors[j] = FailedPost(l)) => k < l

C16_EachElementOnceInOrder ==
    /\ []ProcessedOnceEach
    /\ [][sources' # sources
            => /\ pc = "extract" /\ pc' = "extract"
               /\ idx' = idx + 1
               /\ Len(sources') = idx
               /\ \/ /\ Len(result'.posts) = Len(result.posts) + 1
                     /\ result'.posts[Len(result'.posts)].position = idx
                     /\ result'.errors = result.errors
                  \/ /\ result'.errors = Append(result.errors, FailedPost(idx))
                     /\ result'.posts = result.posts]_vars

\* The first element failed, the second, found whole, was still processed
\* and has position 2.
C16_Witness ==
    /\ pc = "finally"
    /\ result.scraped_posts = 2
    /\ calls["field"] = 8
    /\ ~sources[1].clockOk
    /\ sources[2] = [post |-> FullPost, clockOk |-> TRUE]
    /\ FailuresOf(1) = { 1 }
    /\ RecordsOf(2) = { 1 }


(***************************************************************************)
(* C17.  The stages of scrape_profile run in the order Start, Navigating,  *)
(* then either Done on a navigation error or Scrolling, Enumerating,       *)
(* ExtractingEach, Done; each stage is entered at most once and only after *)
(* the one before it; every run that stops has reached Done.               *)
(***************************************************************************)
\* Each stage's opening call is made at most once, and not before the
\* stage it follows has finished.
StagesInOrder ==
    /\ \A m \in { "launch", "new_page", "goto", "wait_for_selector", "close" } :
         calls[m] <= 1
    /\ calls["new_page"] = 1 => calls["launch"] = 1
    /\ calls["goto"] = 1 => calls["new_page"] = 1
    /\ pc = "scroll" => (calls["wait_for_selector"] = 1 /\ nav_error = None)
    /\ calls["query_selector_all"] > 0
         => (calls["wait_for_selector"] = 1 /\ nav_error = None)
    /\ pc = "enumerate" => (scrollExit # None /\ rendered = None)
    /\ rendered # None => scrollExit # None
    /\ pc = "extract" => rendered # None
    /\ sources # << >> => rendered # None
    /\ nav_error # None
         => /\ pc \in { "finally", "done", "crashed" }
            /\ calls["query_selector_all"] = 0
            /\ sources = << >>
    /\ calls["close"] = 1 => pc \in { "done", "crashed" }

C17_StagesInOrderUntilDone ==
    /\ StagesInOrder
    /\ pc # "crashed"


(***************************************************************************)
(* C19.  In every state, and so in every returned result,                  *)
(* 0 <= len(posts) <= scraped_posts <= requested_posts; when errors holds  *)
(* a navigation error, or a "Runtime error" raised before the enumeration  *)
(* completed, scraped_posts = 0 and posts = [].                            *)
(***************************************************************************)
\* errors holds what _navigate_to_profile returned.
NavigationErrorRecorded ==
    \E i \in 1..Len(result.errors) :
        \/ result.errors[i] = TimeoutMessage
        \/ StartsWith(result.errors[i], ProfileErrorPrefix)
        \/ StartsWith(result.errors[i], NavigationErrorPrefix)

C19_CountsAreOrdered ==
    /\ 0 <= Len(result.posts)
    /\ Len(result.posts) <= result.scraped_posts
    /\ result.scraped_posts <= result.requested_posts
    /\ result.requested_posts = args.post_count
    /\ (stdout # None /\ pc = "done") => stdout[1] = result
    /\ (NavigationErrorRecorded \/ ErrorsWith(result, RuntimeErrorMark) # {})
         => /\ result.scraped_posts = 0
            /\ result.posts = << >>
            /\ posts = << >>
            /\ rendered = None

\* A returned result with all three counts apart.
C19_Witness ==
    /\ Returned
    /\ 0 < Len(stdout[1].posts)
    /\ Len(stdout[1].posts) < stdout[1].scraped_posts
    /\ stdout[1].scraped_posts < stdout[1].requested_posts

=============================================================================
